---- MODULE Spec2Model ----
(***************************************************************************)
(* Hierarchical memory consolidation engine: MemoryManager over the       *)
(* ChromaProvider document store, with its interval-driven consolidation  *)
(* cycle and the inline capacity enforcement of addMemory.                *)
(*                                                                         *)
(* Every `await` of the source is a point where another pending call or   *)
(* timer callback may run, so each awaited store or port call is one      *)
(* step of the call that makes it.                                        *)
(***************************************************************************)
EXTENDS Integers, Sequences, FiniteSets, TLC

(* ------------------------------ bounds -------------------------------- *)
\* uuids handed out (memories ever created)
MaxMemories == 3
\* largest value of the millisecond clock
MaxClock == 1
\* largest maxWorkingMemories a configuration is built with
MaxWorking == 1
\* addMemory calls and timer callbacks pending at once
MaxPending == 2

(* ------------------------------ types --------------------------------- *)
WorkingMemory == "working_memory"
ShortTerm == "short_term"
LongTerm == "long_term"
Episodic == "episodic"
Semantic == "semantic"
MemoryLevel == {WorkingMemory, ShortTerm, LongTerm, Episodic, Semantic}

Low == 1
Medium == 2
High == 3
Critical == 4

\* owners an addMemory call may name: an ordinary agent id, and the empty
\* id, which is the project id the manager's own queries fall back to
Agents == {"", "a1"}
\* texts, as sequences of their parts
Contents == {<<"x">>, <<"y">>}

\* new Date(): a Date object; JSON text holds dates as ISO strings
Date(ms) == [kind |-> "Date", ms |-> ms]
IsoString(ms) == [kind |-> "string", ms |-> ms]
\* new Date(v).getTime(), for v a Date or an ISO string
DateOf(v) == v.ms
\* v.getTime() / v.toISOString() exist on Date objects only
HasDateMethods(v) == v.kind = "Date"

\* JSON.stringify(memory) followed by JSON.parse: Date fields come back
\* as strings, everything else is kept
JSONStringify(memory) ==
  [json |-> [memory EXCEPT !.timestamp = IsoString(memory.timestamp.ms)]]
JSONParse(text) == text.json

\* the embedding port's vector for a text
Embedding(content) ==
  IF content = <<"x">> THEN <<1, 0>>
  ELSE IF content = <<"y">> THEN <<0, 1>>
  ELSE <<1, 1>>

(* ------------------------------ config -------------------------------- *)
\* nResults default of ChromaProvider.queryDocuments
DefaultNResults == 5

\* similarityThreshold = 0.7, as a percentage
SimilarityThresholdPct == 70

consolidationRules ==
  << [sourceLevel |-> WorkingMemory, targetLevel |-> ShortTerm,
      conditions |-> [minImportance |-> Low, minAccessCount |-> 1, minAge |-> 1,
                      requiredTags |-> <<>>],
      transformations |-> [summarize |-> TRUE, extractPatterns |-> FALSE,
                           generalizeKnowledge |-> FALSE]],
     [sourceLevel |-> ShortTerm, targetLevel |-> LongTerm,
      conditions |-> [minImportance |-> Low, minAccessCount |-> 1, minAge |-> 1,
                      requiredTags |-> <<>>],
      transformations |-> [summarize |-> TRUE, extractPatterns |-> TRUE,
                           generalizeKnowledge |-> TRUE]] >>

\* the MemoryConfig objects a manager is constructed with
Configs ==
  { [maxWorkingMemories |-> m, consolidationRules |-> consolidationRules] :
      m \in 0..MaxWorking }

VARIABLES
  config,            \* this.config
  store,             \* the 'documentation' collection: a set of documents
  now,               \* Date.now()
  nextId,            \* uuids handed out so far
  timerActive,       \* the interval of consolidationTimer has not been cleared
  timerSet,          \* this.consolidationTimer holds a timer handle
  calls,             \* pending addMemory calls, by slot
  cycles,            \* pending timer callbacks, by slot
  settled,           \* how the promise ended that the last step settled, if any
  reads              \* the pending read call or function application, if any

vars ==
  <<config, store, now, nextId, timerActive, timerSet, calls, cycles, settled, reads>>

(* --------------------------- ChromaProvider --------------------------- *)
\* a variant that replaces the document stored under the same id
addDocumentsUpsert(st, doc) == { d \in st : d.id # doc.id } \cup {doc}

\* collection.add: a document whose id is already present is not replaced
addDocuments(st, doc) ==
  IF \E d \in st : d.id = doc.id THEN st ELSE st \cup {doc}

\* addDocumentation: id = `${projectId}-${type}-${timestamp}`
addDocumentation(st, content, metadata) ==
  addDocuments(st, [id |-> <<metadata.projectId, metadata.type, metadata.timestamp>>,
                    content |-> content,
                    metadata |-> metadata])

\* all orderings of a finite set as sequences
RECURSIVE Orderings(_)
Orderings(S) ==
  IF S = {} THEN { <<>> }
  ELSE UNION { { <<d>> \o rest : rest \in Orderings(S \ {d}) } : d \in S }

Min(a, b) == IF a < b THEN a ELSE b

\* queryDocuments: the nResults nearest documents that satisfy `where`,
\* nearest first; the ranking is the vector store's
queryDocuments(st, whereProjectId, whereType, nResults) ==
  LET matching == { d \in st : d.metadata.projectId = whereProjectId
                                /\ d.metadata.type = whereType }
      n == Min(nResults, Cardinality(matching))
  IN UNION { Orderings(S) : S \in { T \in SUBSET matching : Cardinality(T) = n } }

\* findRelevantDocumentation(query, {projectId, type, nResults})
findRelevantDocumentation(st, projectId, type, nResults) ==
  queryDocuments(st, projectId, type, nResults)

(* ---------------------------- MemoryManager --------------------------- *)
Includes(s, x) == \E i \in 1..Len(s) : s[i] = x

\* doc.metadata.similarity || 0: the provider copies the stored metadata,
\* which holds no similarity
SimilarityPct(doc) == 0

\* the filter of queryMemories; an absent filter is <<>>, and a
\* similarityThreshold of 0 is falsy
PassesFilters(memory, similarity, query) ==
  /\ (query.level # <<>> => memory.level = query.level[1])
  /\ (query.type # <<>> => memory.type = query.type[1])
  /\ (query.importance # <<>> => ~(memory.importance < query.importance[1]))
  /\ (query.timeRange # <<>> =>
        ~(DateOf(memory.timestamp) < query.timeRange[1].start
          \/ DateOf(memory.timestamp) > query.timeRange[1].end))
  /\ (query.tags # <<>> =>
        \A i \in 1..Len(query.tags[1]) : Includes(memory.tags, query.tags[1][i]))
  /\ ((query.similarityThreshold # <<>> /\ query.similarityThreshold # <<0>>) =>
        ~(similarity < query.similarityThreshold[1]))

\* queryMemories: projectId is query.metadata?.projectId || '', the limit
\* is query.limit (undefined: the provider's default)
queryMemories(st, query) ==
  { LET results == SelectSeq(docs, LAMBDA d :
                        PassesFilters(JSONParse(d.content), SimilarityPct(d), query))
    IN [i \in 1..Len(results) |-> JSONParse(results[i].content)]
    : docs \in findRelevantDocumentation(st, query.projectId, "memory", DefaultNResults) }

\* storeMemory: the document is filed under projectId = metadata.agentId;
\* memory.timestamp.toISOString() needs a Date
storeMemoryThrows(memory) == ~HasDateMethods(memory.timestamp)

storeMemory(st, memory) ==
  addDocumentation(st, JSONStringify(memory),
                   [projectId |-> memory.agentId, type |-> "memory",
                    timestamp |-> memory.timestamp.ms])

\* getMemory(id): the first document of a search for `memory:${id}` in
\* project 'system', whatever its id; <<>> is null
getMemory(st, id) ==
  { IF Len(docs) = 0 THEN <<>> ELSE << JSONParse(docs[1].content) >>
    : docs \in findRelevantDocumentation(st, "system", "memory", DefaultNResults) }

\* dot * |dot| * 100^2 >= threshold^2 * |a|^2 * |b|^2, i.e. cosine >= threshold;
\* with a zero vector the quotient is NaN, which is not >= threshold
calculateCosineSimilarityAtLeast(a, b, pct) ==
  LET dot == a[1] * b[1] + a[2] * b[2]
      magA2 == a[1] * a[1] + a[2] * a[2]
      magB2 == b[1] * b[1] + b[2] * b[2]
  IN /\ magA2 > 0 /\ magB2 > 0
     /\ dot >= 0 /\ dot * dot * 10000 >= pct * pct * magA2 * magB2

\* a variant that also follows a link from the other memory to the founder
areMemoriesRelatedEitherWay(a, b) ==
  \/ (a.taskId # <<>> /\ a.taskId = b.taskId)
  \/ Includes(a.relatedMemories, b.id)
  \/ Includes(b.relatedMemories, a.id)
  \/ Cardinality({ i \in 1..Len(a.tags) : Includes(b.tags, a.tags[i]) }) >= 2
  \/ (a.embeddings # <<>> /\ b.embeddings # <<>>
      /\ calculateCosineSimilarityAtLeast(a.embeddings, b.embeddings,
                                          SimilarityThresholdPct))

areMemoriesRelated(a, b) ==
  \/ (a.taskId # <<>> /\ a.taskId = b.taskId)
  \/ Includes(a.relatedMemories, b.id)
  \/ Cardinality({ i \in 1..Len(a.tags) : Includes(b.tags, a.tags[i]) }) >= 2
  \/ (a.embeddings # <<>> /\ b.embeddings # <<>>
      /\ calculateCosineSimilarityAtLeast(a.embeddings, b.embeddings,
                                          SimilarityThresholdPct))

\* a variant that does not mark the memories a founder takes as used
RECURSIVE groupRelatedMemoriesKeepTaken(_)
groupRelatedMemoriesKeepTaken(memories) ==
  IF memories = <<>> THEN <<>>
  ELSE LET founder == Head(memories)
           rest == Tail(memories)
           taken == SelectSeq(rest, LAMBDA o : areMemoriesRelated(founder, o))
       IN << <<founder>> \o taken >> \o groupRelatedMemoriesKeepTaken(rest)

\* groupRelatedMemories: each not yet used memory founds a group and takes
\* every later unused memory related to it
RECURSIVE groupRelatedMemories(_)
groupRelatedMemories(memories) ==
  IF memories = <<>> THEN <<>>
  ELSE LET founder == Head(memories)
           rest == Tail(memories)
           taken == SelectSeq(rest, LAMBDA o : areMemoriesRelated(founder, o))
           left == SelectSeq(rest, LAMBDA o : ~areMemoriesRelated(founder, o))
       IN << <<founder>> \o taken >> \o groupRelatedMemories(left)

\* the query getMemoriesForConsolidation issues at time t
ConsolidationQuery(rule, t) ==
  [projectId |-> "", level |-> <<rule.sourceLevel>>, type |-> <<>>,
   similarityThreshold |-> <<>>,
   importance |-> <<rule.conditions.minImportance>>,
   timeRange |-> << [start |-> t - rule.conditions.minAge, end |-> t] >>,
   tags |-> IF rule.conditions.requiredTags = <<>> THEN <<>>
            ELSE <<rule.conditions.requiredTags>>]

\* getMemoriesForConsolidation, for a query issued at time t
getMemoriesForConsolidation(st, rule, t) ==
  { SelectSeq(ms, LAMBDA m : m.accessCount >= rule.conditions.minAccessCount)
    : ms \in queryMemories(st, ConsolidationQuery(rule, t)) }

\* a variant that takes the importance of the first memory of the group
FirstImportance(memories) == memories[1].importance

RECURSIVE MaxImportance(_)
MaxImportance(memories) ==
  IF Len(memories) = 1 THEN memories[1].importance
  ELSE LET r == MaxImportance(Tail(memories))
       IN IF memories[1].importance > r THEN memories[1].importance ELSE r

\* [...new Set(memories.flatMap(m => m.metadata.tags))]
RECURSIVE Dedup(_)
Dedup(s) ==
  IF s = <<>> THEN <<>>
  ELSE <<Head(s)>> \o Dedup(SelectSeq(Tail(s), LAMBDA x : x # Head(s)))

RECURSIVE FlatTags(_)
FlatTags(memories) ==
  IF memories = <<>> THEN <<>> ELSE Head(memories).tags \o FlatTags(Tail(memories))

\* the text the transformations of a rule produce, as its labelled parts
consolidatedContent(rule) ==
  (IF rule.transformations.summarize THEN <<"summary">> ELSE <<>>)
  \o (IF rule.transformations.extractPatterns THEN <<"patterns">> ELSE <<>>)
  \o (IF rule.transformations.generalizeKnowledge THEN <<"knowledge">> ELSE <<>>)

\* a variant that promotes in place: the new memory takes over the id of
\* the first source instead of a fresh uuid
applyConsolidationRuleInPlace(memories, rule, id, t) ==
  [sourceMemories |-> [i \in 1..Len(memories) |-> memories[i].id],
   newMemory |->
     [id |-> memories[1].id,
      content |-> consolidatedContent(rule),
      level |-> rule.targetLevel,
      importance |-> MaxImportance(memories),
      timestamp |-> Date(t),
      accessCount |-> 1,
      source |-> "consolidation",
      type |-> "knowledge",
      tags |-> Dedup(FlatTags(memories)),
      relatedMemories |-> [i \in 1..Len(memories) |-> memories[i].id],
      agentId |-> memories[1].agentId,
      projectId |-> memories[1].projectId,
      taskId |-> <<>>,
      embeddings |-> Embedding(consolidatedContent(rule))],
   level |-> rule.targetLevel]

\* applyConsolidationRule with every port call successful: uuid `id`,
\* new Date() = t
applyConsolidationRule(memories, rule, id, t) ==
  [sourceMemories |-> [i \in 1..Len(memories) |-> memories[i].id],
   newMemory |->
     [id |-> id,
      content |-> consolidatedContent(rule),
      level |-> rule.targetLevel,
      importance |-> MaxImportance(memories),
      timestamp |-> Date(t),
      accessCount |-> 1,
      source |-> "consolidation",
      type |-> "knowledge",
      tags |-> Dedup(FlatTags(memories)),
      relatedMemories |-> [i \in 1..Len(memories) |-> memories[i].id],
      agentId |-> memories[1].agentId,
      projectId |-> memories[1].projectId,
      taskId |-> <<>>,
      embeddings |-> Embedding(consolidatedContent(rule))],
   level |-> rule.targetLevel]

\* config.consolidationRules.find(r => r.sourceLevel === level); 0: none
FindRule(rules, level) ==
  IF \E i \in 1..Len(rules) : rules[i].sourceLevel = level
  THEN CHOOSE i \in 1..Len(rules) :
         /\ rules[i].sourceLevel = level
         /\ \A j \in 1..(i - 1) : rules[j].sourceLevel # level
  ELSE 0

\* Array.prototype.sort with (a, b) => a.timestamp.getTime() - b.timestamp.getTime():
\* the comparator runs when there are two elements or more
SortThrows(memories) ==
  Len(memories) >= 2 /\ \E i \in 1..Len(memories) : ~HasDateMethods(memories[i].timestamp)

RECURSIVE SortByTimestamp(_)
SortByTimestamp(memories) ==
  IF memories = <<>> THEN <<>>
  ELSE LET i == CHOOSE k \in 1..Len(memories) :
                  \A j \in 1..Len(memories) :
                    \/ DateOf(memories[k].timestamp) < DateOf(memories[j].timestamp)
                    \/ (DateOf(memories[k].timestamp) = DateOf(memories[j].timestamp)
                        /\ k <= j)
       IN <<memories[i]>>
          \o SortByTimestamp(SubSeq(memories, 1, i - 1)
                             \o SubSeq(memories, i + 1, Len(memories)))

(* ------------------------------ state --------------------------------- *)
IdleCall == [pc |-> "idle", memory |-> <<>>, oldest |-> <<>>,
             group |-> <<>>, rule |-> 0, result |-> <<>>, toTag |-> <<>>]
IdleCycle == [pc |-> "idle", ruleIdx |-> 0, queryAt |-> 0, groups |-> <<>>,
              group |-> <<>>, result |-> <<>>, toTag |-> <<>>]

Slots == 1..MaxPending

\* an addMemory call that has settled: resolved with the memory, or rejected
Resolved == [IdleCall EXCEPT !.pc = "resolved"]
Rejected == [IdleCall EXCEPT !.pc = "rejected"]
\* a timer callback that has returned: consolidateMemories completed, or
\* threw into the catch of the callback
Done == [IdleCycle EXCEPT !.pc = "done"]
Failed == [IdleCycle EXCEPT !.pc = "failed"]

\* calls and callbacks that have started and not yet settled
Pending ==
  Cardinality({ s \in Slots : calls[s].pc # "idle" })
  + Cardinality({ s \in Slots : cycles[s].pc # "idle" })

\* a new call or callback takes the first free slot
FirstFreeCall(s) ==
  calls[s].pc = "idle" /\ \A r \in 1..(s - 1) : calls[r].pc # "idle"
FirstFreeCycle(s) ==
  cycles[s].pc = "idle" /\ \A r \in 1..(s - 1) : cycles[r].pc # "idle"

\* call s continues as `nxt`; when that settles it, the slot is free again
\* and `settled` holds the outcome until the next step
PutCall(s, nxt) ==
  /\ calls' = [calls EXCEPT ![s] =
       IF nxt.pc \in {"resolved", "rejected"} THEN IdleCall ELSE nxt]
  /\ settled' = IF nxt.pc \in {"resolved", "rejected"}
                THEN << [op |-> "addMemory", how |-> nxt.pc,
                         memory |-> calls[s].memory] >>
                ELSE <<>>
  /\ cycles' = cycles

\* a variant of the callback whose catch clears the interval
CallbackCatchClearsTimer(how) ==
  timerActive' = (IF how = "failed" THEN FALSE ELSE timerActive)

\* the try/catch of the interval callback: an error of consolidateMemories
\* is logged and nothing else is done; the interval stays as it is
CallbackCatch(how) == timerActive' = timerActive

\* callback s continues as `nxt`; "done" and "failed" end it
PutCycle(s, nxt) ==
  /\ CallbackCatch(nxt.pc)
  /\ cycles' = [cycles EXCEPT ![s] =
       IF nxt.pc \in {"done", "failed"} THEN IdleCycle ELSE nxt]
  /\ settled' = IF nxt.pc \in {"done", "failed"}
                THEN << [op |-> "callback", how |-> nxt.pc, memory |-> <<>>] >>
                ELSE <<>>
  /\ calls' = calls

\* the constructor: the configuration is stored and startConsolidation()
\* sets the interval
Init ==
  /\ config \in Configs
  /\ store = {}
  /\ now = 0
  /\ nextId = 0
  /\ timerActive = TRUE
  /\ timerSet = TRUE
  /\ calls = [s \in Slots |-> IdleCall]
  /\ cycles = [s \in Slots |-> IdleCycle]
  /\ settled = <<>>
  /\ reads = <<>>

\* time passes
AdvanceClock ==
  /\ now < MaxClock
  /\ now' = now + 1
  /\ settled' = <<>>
  /\ UNCHANGED <<config, reads, store, nextId, timerActive, timerSet, calls, cycles>>

(* ------------------------------ addMemory ----------------------------- *)
\* a variant that builds the memory with no access counted yet
NewMemoryUncounted(id, agentId, content, t) ==
  [id |-> id,
   content |-> content,
   level |-> WorkingMemory,
   importance |-> Low,
   timestamp |-> Date(t),
   accessCount |-> 0,
   source |-> "agent",
   type |-> "observation",
   tags |-> <<>>,
   relatedMemories |-> <<>>,
   agentId |-> agentId,
   projectId |-> "p1",
   taskId |-> <<>>,
   embeddings |-> <<>>]

\* the Memory object addMemory builds
NewMemory(id, agentId, content, t) ==
  [id |-> id,
   content |-> content,
   level |-> WorkingMemory,
   importance |-> Low,
   timestamp |-> Date(t),
   accessCount |-> 1,
   source |-> "agent",
   type |-> "observation",
   tags |-> <<>>,
   relatedMemories |-> <<>>,
   agentId |-> agentId,
   projectId |-> "p1",
   taskId |-> <<>>,
   embeddings |-> <<>>]

\* addMemory up to the return of generateEmbeddings: the memory object is
\* built, then memory.embeddings = await this.generateEmbeddings(content);
\* a failed request throws and the call rejects. The request reads and
\* writes nothing of the manager, so it is one step with the call's start.
addMemory(s, agentId, content) ==
  /\ FirstFreeCall(s)
  /\ Pending < MaxPending
  /\ nextId < MaxMemories
  /\ nextId' = nextId + 1
  /\ \E ok \in BOOLEAN :
       PutCall(s, IF ok
                  THEN [IdleCall EXCEPT
                          !.pc = "store",
                          !.memory = << [NewMemory(nextId + 1, agentId, content, now)
                                           EXCEPT !.embeddings = Embedding(content)] >>]
                  ELSE Rejected)
  /\ UNCHANGED <<config, reads, store, now, timerActive, timerSet>>

\* await this.storeMemory(memory)
addMemoryStore(s) ==
  /\ calls[s].pc = "store"
  /\ \E ok \in BOOLEAN :
       IF ok /\ ~storeMemoryThrows(calls[s].memory[1])
       THEN /\ store' = storeMemory(store, calls[s].memory[1])
            /\ PutCall(s, [calls[s] EXCEPT !.pc = "enforce"])
       ELSE /\ store' = store
            /\ PutCall(s, Rejected)
  /\ UNCHANGED <<config, reads, now, nextId, timerActive, timerSet>>

\* the query enforceCapacityLimits issues
CapacityQuery ==
  [projectId |-> "", level |-> <<WorkingMemory>>, type |-> <<>>,
   importance |-> <<>>, timeRange |-> <<>>, tags |-> <<>>,
   similarityThreshold |-> <<>>]

\* the loop of enforceCapacityLimits reaches consolidateMemory(Head(oldest)),
\* which looks up the rule; with <<>> left the loop and addMemory are over
StartConsolidateMemory(call, oldest) ==
  IF oldest = <<>>
  THEN Resolved
  ELSE [call EXCEPT !.pc = "apply", !.oldest = Tail(oldest),
                    !.group = <<Head(oldest)>>,
                    !.rule = FindRule(config.consolidationRules, Head(oldest).level),
                    !.result = <<>>, !.toTag = <<>>]

\* what enforceCapacityLimits does with the result of its query
EnforceOn(call, memories) ==
  IF Len(memories) > config.maxWorkingMemories
  THEN IF SortThrows(memories)
       THEN Rejected
       ELSE StartConsolidateMemory(call,
              SubSeq(SortByTimestamp(memories), 1,
                     Len(memories) - config.maxWorkingMemories))
  ELSE Resolved

\* enforceCapacityLimits: the query returns (or fails) and the oldest
\* memories are picked
enforceCapacityLimits(s) ==
  /\ calls[s].pc = "enforce"
  /\ IF calls[s].memory[1].level # WorkingMemory
     THEN PutCall(s, Resolved)
     ELSE \/ PutCall(s, Rejected)
          \/ \E memories \in queryMemories(store, CapacityQuery) :
               PutCall(s, EnforceOn(calls[s], memories))
  /\ UNCHANGED <<config, reads, store, now, nextId, timerActive, timerSet>>

\* consolidateMemory: applyConsolidationRule([memory], rule); a failed
\* summarization or embedding request throws out of addMemory
consolidateMemoryApply(s) ==
  /\ calls[s].pc = "apply"
  /\ IF calls[s].rule = 0
     THEN /\ PutCall(s, StartConsolidateMemory(calls[s], calls[s].oldest))
          /\ nextId' = nextId
     ELSE \/ /\ PutCall(s, Rejected)
             /\ nextId' = nextId
          \/ /\ nextId < MaxMemories
             /\ nextId' = nextId + 1
             /\ PutCall(s, [calls[s] EXCEPT
                              !.pc = "storeNew",
                              !.result = << applyConsolidationRule(
                                              calls[s].group,
                                              config.consolidationRules[calls[s].rule],
                                              nextId + 1, now) >>])
  /\ UNCHANGED <<config, reads, store, now, timerActive, timerSet>>

\* storeConsolidatedMemory: await this.storeMemory(result.newMemory)
consolidateMemoryStore(s) ==
  /\ calls[s].pc = "storeNew"
  /\ \E ok \in BOOLEAN :
       IF ok /\ ~storeMemoryThrows(calls[s].result[1].newMemory)
       THEN /\ store' = storeMemory(store, calls[s].result[1].newMemory)
            /\ PutCall(s, [calls[s] EXCEPT
                             !.pc = "tag",
                             !.toTag = calls[s].result[1].sourceMemories])
       ELSE /\ store' = store
            /\ PutCall(s, Rejected)
  /\ UNCHANGED <<config, reads, now, nextId, timerActive, timerSet>>

\* memory.metadata.tags.push('consolidated')
Tagged(memory) == [memory EXCEPT !.tags = Append(@, "consolidated")]

\* storeConsolidatedMemory, one source id: getMemory, then the tagged
\* memory is stored again; after the last id consolidateMemory returns
consolidateMemoryTag(s) ==
  /\ calls[s].pc = "tag"
  /\ IF calls[s].toTag = <<>>
     THEN /\ PutCall(s, StartConsolidateMemory(calls[s], calls[s].oldest))
          /\ store' = store
     ELSE \/ /\ PutCall(s, Rejected)
             /\ store' = store
          \/ \E got \in getMemory(store, Head(calls[s].toTag)) :
               IF got = <<>>
               THEN /\ PutCall(s, [calls[s] EXCEPT !.toTag = Tail(@)])
                    /\ store' = store
               ELSE IF storeMemoryThrows(Tagged(got[1]))
               THEN /\ PutCall(s, Rejected)
                    /\ store' = store
               ELSE /\ store' = storeMemory(store, Tagged(got[1]))
                    /\ PutCall(s, [calls[s] EXCEPT !.toTag = Tail(@)])
  /\ UNCHANGED <<config, reads, now, nextId, timerActive, timerSet>>

(* ------------------------- consolidation cycle ------------------------ *)
\* the loop of consolidateMemories reaches rule `idx`:
\* getMemoriesForConsolidation builds its time range and issues the query
StartRule(idx) ==
  IF idx > Len(config.consolidationRules)
  THEN Done
  ELSE [IdleCycle EXCEPT !.pc = "fetch", !.ruleIdx = idx, !.queryAt = now]

\* the inner loop of consolidateMemories moves on: the next group of the
\* rule, or the next rule
NextGroup(cycle) ==
  IF cycle.groups # <<>>
  THEN [cycle EXCEPT !.pc = "apply", !.group = Head(cycle.groups),
                     !.groups = Tail(cycle.groups),
                     !.result = <<>>, !.toTag = <<>>]
  ELSE StartRule(cycle.ruleIdx + 1)

\* a variant whose callback still fires after the interval was cleared
TickAfterStop(s) ==
  /\ FirstFreeCycle(s)
  /\ Pending < MaxPending
  /\ PutCycle(s, StartRule(1))
  /\ UNCHANGED <<config, reads, store, now, nextId, timerSet>>

\* the interval fires: the callback of startConsolidation calls
\* consolidateMemories, whatever other callback is still pending
Tick(s) ==
  /\ timerActive
  /\ FirstFreeCycle(s)
  /\ Pending < MaxPending
  /\ PutCycle(s, StartRule(1))
  /\ UNCHANGED <<config, reads, store, now, nextId, timerSet>>

\* getMemoriesForConsolidation returns and the memories are grouped; a
\* failed query throws out of consolidateMemories into the callback's catch
consolidateMemoriesFetch(s) ==
  /\ cycles[s].pc = "fetch"
  /\ \/ PutCycle(s, Failed)
     \/ \E memories \in getMemoriesForConsolidation(
                           store, config.consolidationRules[cycles[s].ruleIdx],
                           cycles[s].queryAt) :
          PutCycle(s, NextGroup([cycles[s] EXCEPT
                                   !.groups = groupRelatedMemories(memories)]))
  /\ UNCHANGED <<config, reads, store, now, nextId, timerSet>>

\* applyConsolidationRule(group, rule) inside the try of the group loop: a
\* failed request is caught and the loop goes on
consolidateMemoriesApply(s) ==
  /\ cycles[s].pc = "apply"
  /\ \/ /\ PutCycle(s, NextGroup(cycles[s]))
        /\ nextId' = nextId
     \/ /\ nextId < MaxMemories
        /\ nextId' = nextId + 1
        /\ PutCycle(s, [cycles[s] EXCEPT
                          !.pc = "storeNew",
                          !.result = << applyConsolidationRule(
                                          cycles[s].group,
                                          config.consolidationRules[cycles[s].ruleIdx],
                                          nextId + 1, now) >>])
  /\ UNCHANGED <<config, reads, store, now, timerSet>>

\* storeConsolidatedMemory inside the try: the new memory is stored
consolidateMemoriesStore(s) ==
  /\ cycles[s].pc = "storeNew"
  /\ \E ok \in BOOLEAN :
       IF ok /\ ~storeMemoryThrows(cycles[s].result[1].newMemory)
       THEN /\ store' = storeMemory(store, cycles[s].result[1].newMemory)
            /\ PutCycle(s, [cycles[s] EXCEPT
                              !.pc = "tag",
                              !.toTag = cycles[s].result[1].sourceMemories])
       ELSE /\ store' = store
            /\ PutCycle(s, NextGroup(cycles[s]))
  /\ UNCHANGED <<config, reads, now, nextId, timerSet>>

\* storeConsolidatedMemory inside the try, one source id
consolidateMemoriesTag(s) ==
  /\ cycles[s].pc = "tag"
  /\ IF cycles[s].toTag = <<>>
     THEN /\ PutCycle(s, NextGroup(cycles[s]))
          /\ store' = store
     ELSE \/ /\ PutCycle(s, NextGroup(cycles[s]))
             /\ store' = store
          \/ \E got \in getMemory(store, Head(cycles[s].toTag)) :
               IF got = <<>>
               THEN /\ PutCycle(s, [cycles[s] EXCEPT !.toTag = Tail(@)])
                    /\ store' = store
               ELSE IF storeMemoryThrows(Tagged(got[1]))
               THEN /\ PutCycle(s, NextGroup(cycles[s]))
                    /\ store' = store
               ELSE /\ store' = storeMemory(store, Tagged(got[1]))
                    /\ PutCycle(s, [cycles[s] EXCEPT !.toTag = Tail(@)])
  /\ UNCHANGED <<config, reads, now, nextId, timerSet>>

\* stop(): if (this.consolidationTimer) clearTimeout(this.consolidationTimer)
stop ==
  /\ timerActive' = (IF timerSet THEN FALSE ELSE timerActive)
  /\ settled' = <<>>
  /\ UNCHANGED <<config, reads, store, now, nextId, timerSet, calls, cycles>>

Next ==
  \/ AdvanceClock
  \/ \E s \in Slots, a \in Agents, c \in Contents : addMemory(s, a, c)
  \/ \E s \in Slots : addMemoryStore(s)
  \/ \E s \in Slots : enforceCapacityLimits(s)
  \/ \E s \in Slots : consolidateMemoryApply(s)
  \/ \E s \in Slots : consolidateMemoryStore(s)
  \/ \E s \in Slots : consolidateMemoryTag(s)
  \/ \E s \in Slots : Tick(s)
  \/ \E s \in Slots : consolidateMemoriesFetch(s)
  \/ \E s \in Slots : consolidateMemoriesApply(s)
  \/ \E s \in Slots : consolidateMemoriesStore(s)
  \/ \E s \in Slots : consolidateMemoriesTag(s)
  \/ stop

Spec == Init /\ [][Next]_vars

\* callers that await each call before the next: nothing else is pending
\* while an addMemory call or a timer callback runs
Alone(A) == A /\ Pending' <= 1
SeqNext ==
  \/ AdvanceClock
  \/ \E s \in Slots, a \in Agents, c \in Contents : Alone(addMemory(s, a, c))
  \/ \E s \in Slots : addMemoryStore(s)
  \/ \E s \in Slots : enforceCapacityLimits(s)
  \/ \E s \in Slots : consolidateMemoryApply(s)
  \/ \E s \in Slots : consolidateMemoryStore(s)
  \/ \E s \in Slots : consolidateMemoryTag(s)
  \/ \E s \in Slots : Alone(Tick(s))
  \/ \E s \in Slots : consolidateMemoriesFetch(s)
  \/ \E s \in Slots : consolidateMemoriesApply(s)
  \/ \E s \in Slots : consolidateMemoriesStore(s)
  \/ \E s \in Slots : consolidateMemoriesTag(s)
  \/ stop
SeqSpec == Init /\ [][SeqNext]_vars

\* a step of the pending addMemory call in slot s: the store or port it
\* awaits answers
CallProgress(s) ==
  \/ addMemoryStore(s)
  \/ enforceCapacityLimits(s)
  \/ consolidateMemoryApply(s)
  \/ consolidateMemoryStore(s)
  \/ consolidateMemoryTag(s)

\* a step of the pending timer callback in slot s
CycleProgress(s) ==
  \/ consolidateMemoriesFetch(s)
  \/ consolidateMemoriesApply(s)
  \/ consolidateMemoriesStore(s)
  \/ consolidateMemoriesTag(s)

\* the event loop: every awaited request is answered (or fails) in the end,
\* and an interval that has not been cleared fires again
FairSpec ==
  /\ Spec
  /\ \A s \in Slots : WF_vars(CallProgress(s))
  /\ \A s \in Slots : WF_vars(CycleProgress(s))
  /\ WF_vars(\E s \in Slots : Tick(s))

(* ------------------------------ read calls ---------------------------- *)
\* memories a seeded store holds
MaxSeed == 2

MemoryType ==
  {"observation", "inference", "decision", "knowledge", "experience",
   "feedback", "error", "success", "collaboration", "context"}

\* 24 * 60 * 60 * 1000, the window of the consolidation rate
DayMs == 24 * 60 * 60 * 1000

\* the metadata objects callers pass to addMemory
SeedMetadata ==
  { [agentId |-> a, type |-> ty, tags |-> tg] :
      a \in Agents, ty \in {"observation", "knowledge"}, tg \in {<<>>, <<"t">>} }

\* the memory addMemory(content, metadata, level, importance) builds and
\* embeds at time t
AddedMemory(id, metadata, level, importance, t) ==
  [NewMemory(id, metadata.agentId, <<"x">>, t) EXCEPT
     !.level = level, !.importance = importance,
     !.type = metadata.type, !.tags = metadata.tags,
     !.embeddings = Embedding(<<"x">>)]

\* the memories the id-th addMemory call of a caller may have stored: the
\* first call with any arguments, the later ones with the default level and
\* importance and as plain observations
SeedMemories(id) ==
  { AddedMemory(id, md, l, i, t) :
      md \in { d \in SeedMetadata :
                 id = 1 \/ (d.type = "observation" /\ d.tags = <<>>) },
      l \in { v \in {WorkingMemory, LongTerm} : id = 1 \/ v = WorkingMemory },
      i \in { v \in {Low, Medium} : id = 1 \/ v = Low },
      t \in 0..MaxClock }

\* the stores up to n addMemory calls leave behind
RECURSIVE StoresAfter(_)
StoresAfter(n) ==
  IF n = 0 THEN { {} }
  ELSE LET before == StoresAfter(n - 1)
       IN before \cup { storeMemory(st, m) : st \in before, m \in SeedMemories(n) }

SeedStores == StoresAfter(MaxSeed)

\* query.metadata?.projectId || ''
EffectiveProjectId(metadata) ==
  IF metadata.projectId = <<>> THEN "" ELSE metadata.projectId[1]

\* the scopes a MemoryQuery may name in its metadata
QueryScopes ==
  { [projectId |-> p, agentId |-> a] :
      p \in {<<>>, <<"a1">>, <<"p1">>}, a \in {<<>>, <<"a1">>} }

NoScope == [projectId |-> <<>>, agentId |-> <<>>]

\* the MemoryQuery objects of the callers: a scope with no filter, or any
\* choice of filters with no scope
Queries ==
  { q \in { [projectId |-> EffectiveProjectId(md), metadata |-> md,
             level |-> l, type |-> ty, importance |-> i, timeRange |-> tr,
             tags |-> tg, similarityThreshold |-> th] :
              md \in QueryScopes,
              l \in {<<>>, <<WorkingMemory>>},
              ty \in {<<>>, <<"observation">>},
              i \in {<<>>, <<Medium>>},
              tr \in {<<>>, << [start |-> MaxClock, end |-> MaxClock] >>},
              tg \in {<<>>, << <<"t">> >>},
              th \in {<<>>, <<50>>} } :
      \/ q.metadata = NoScope
      \/ (q.level = <<>> /\ q.type = <<>> /\ q.importance = <<>>
          /\ q.timeRange = <<>> /\ q.tags = <<>> /\ q.similarityThreshold = <<>>) }

\* the similarities (percent) of a query response of n documents: nearest
\* first; they are the vector store's
RECURSIVE Similarities(_)
Similarities(n) ==
  IF n = 0 THEN { <<>> }
  ELSE UNION { { <<v>> \o rest : rest \in { r \in Similarities(n - 1) :
                                               r = <<>> \/ r[1] <= v } } :
               v \in {0, 100} }

\* processQueryResults keeps id, content and metadata of each entry of the
\* response; queryMemories then maps and filters
MemorySearchResults(docs, query) ==
  SelectSeq([i \in 1..Len(docs) |->
               [memory |-> JSONParse(docs[i].content),
                similarity |-> SimilarityPct(docs[i])]],
            LAMBDA r : PassesFilters(r.memory, r.similarity, query))

\* a caller calls queryMemories(query); the call awaits the store's search
queryMemoriesCall(query) ==
  /\ reads = <<>>
  /\ reads' = << [op |-> "queryMemories", query |-> query] >>
  /\ settled' = <<>>
  /\ UNCHANGED <<config, store, now, nextId, timerActive, timerSet, calls, cycles>>

\* the search answers (or fails) and queryMemories returns
queryMemoriesReturn ==
  /\ reads # <<>>
  /\ reads[1].op = "queryMemories"
  /\ reads' = <<>>
  /\ \/ settled' = << [op |-> "queryMemories", how |-> "rejected",
                       query |-> reads[1].query,
                       searched |-> <<>>, results |-> <<>>] >>
     \/ \E docs \in findRelevantDocumentation(store, reads[1].query.projectId,
                                              "memory", DefaultNResults) :
          \E sims \in Similarities(Len(docs)) :
            settled' = << [op |-> "queryMemories", how |-> "resolved",
                           query |-> reads[1].query,
                           searched |-> [i \in 1..Len(docs) |->
                                           [memory |-> JSONParse(docs[i].content),
                                            similarity |-> sims[i]]],
                           results |-> MemorySearchResults(docs, reads[1].query)] >>
  /\ UNCHANGED <<config, store, now, nextId, timerActive, timerSet, calls, cycles>>

\* a variant that reads the memories of every owner
getAllMemoriesUnscoped(st, agentId) ==
  UNION { { [i \in 1..Len(docs) |-> JSONParse(docs[i].content)]
            : docs \in findRelevantDocumentation(st, a, "memory", DefaultNResults) }
          : a \in Agents }

\* getAllMemories(agentId): the documents of project agentId, parsed
getAllMemories(st, agentId) ==
  { [i \in 1..Len(docs) |-> JSONParse(docs[i].content)]
    : docs \in findRelevantDocumentation(st, agentId, "memory", DefaultNResults) }

\* a / b of two counts as JavaScript computes it: 0 / 0 is NaN and a / 0
\* is Infinity for a > 0; a number is kept as its fraction
Divide(a, b) ==
  IF b # 0 THEN [kind |-> "number", num |-> a, den |-> b]
  ELSE IF a = 0 THEN [kind |-> "NaN", num |-> 0, den |-> 0]
  ELSE [kind |-> "Infinity", num |-> 0, den |-> 0]

RECURSIVE TotalAccessCount(_)
TotalAccessCount(memories) ==
  IF memories = <<>> THEN 0
  ELSE Head(memories).accessCount + TotalAccessCount(Tail(memories))

\* the MemoryStats getMemoryStats computes at time t from what
\* getAllMemories returned
computeStats(memories, t) ==
  LET recentMemories ==
        SelectSeq(memories, LAMBDA m : t - DateOf(m.timestamp) < DayMs)
      consolidatedMemories ==
        SelectSeq(recentMemories, LAMBDA m : m.level = LongTerm)
  IN [totalMemories |-> Len(memories),
      byLevel |-> [l \in MemoryLevel |-> Len(SelectSeq(memories, LAMBDA m : m.level = l))],
      byType |-> [ty \in MemoryType |-> Len(SelectSeq(memories, LAMBDA m : m.type = ty))],
      byImportance |-> [i \in Low..Critical |->
                          Len(SelectSeq(memories, LAMBDA m : m.importance = i))],
      averageAccessCount |-> Divide(TotalAccessCount(memories), Len(memories)),
      consolidationRate |-> Divide(Len(consolidatedMemories), Len(recentMemories)),
      retentionRate |-> Divide(Len(SelectSeq(memories, LAMBDA m : m.accessCount > 1)),
                               Len(memories))]

\* a caller calls getMemoryStats(agentId); the call awaits getAllMemories
getMemoryStatsCall(agentId) ==
  /\ reads = <<>>
  /\ reads' = << [op |-> "getMemoryStats", agentId |-> agentId] >>
  /\ settled' = <<>>
  /\ UNCHANGED <<config, store, now, nextId, timerActive, timerSet, calls, cycles>>

\* getAllMemories answers (or the search fails) and getMemoryStats returns
getMemoryStatsReturn ==
  /\ reads # <<>>
  /\ reads[1].op = "getMemoryStats"
  /\ reads' = <<>>
  /\ \/ settled' = << [op |-> "getMemoryStats", how |-> "rejected",
                       agentId |-> reads[1].agentId, stats |-> <<>>] >>
     \/ \E memories \in getAllMemories(store, reads[1].agentId) :
          settled' = << [op |-> "getMemoryStats", how |-> "resolved",
                         agentId |-> reads[1].agentId,
                         stats |-> << computeStats(memories, now) >>] >>
  /\ UNCHANGED <<config, store, now, nextId, timerActive, timerSet, calls, cycles>>

\* the read calls of the facade on a store that earlier addMemory calls
\* filled, a day after the first of them
ReadInit ==
  /\ config \in { c \in Configs : c.maxWorkingMemories = MaxWorking }
  /\ store \in SeedStores
  /\ now = DayMs
  /\ nextId = MaxSeed
  /\ timerActive = TRUE
  /\ timerSet = TRUE
  /\ calls = [s \in Slots |-> IdleCall]
  /\ cycles = [s \in Slots |-> IdleCycle]
  /\ settled = <<>>
  /\ reads = <<>>

ReadNext ==
  \/ \E q \in Queries : queryMemoriesCall(q)
  \/ queryMemoriesReturn
  \/ \E a \in Agents : getMemoryStatsCall(a)
  \/ getMemoryStatsReturn

ReadSpec == ReadInit /\ [][ReadNext]_vars

(* ------------------------------ grouping ------------------------------ *)
\* candidates handed to groupRelatedMemories at once
MaxCandidates == 3

\* a candidate as queryMemories returns it: a stored memory, parsed, with
\* the task, tags, links and embeddings its creator gave it
CandidateMemories(id) ==
  { JSONParse(JSONStringify(
      [NewMemory(id, "a1", <<"x">>, 0) EXCEPT
         !.taskId = tk, !.tags = tg, !.relatedMemories = rel, !.embeddings = e])) :
      tk \in {<<>>, <<"T1">>},
      tg \in {<<>>, <<"t", "u">>},
      rel \in {<<>>, << (id % MaxCandidates) + 1 >>},
      e \in {<<>>, <<1, 0>>, <<0, 1>>} }

\* the candidate lists of up to n memories, with ids 1..n
RECURSIVE CandidateLists(_)
CandidateLists(n) ==
  IF n = 0 THEN { <<>> }
  ELSE LET shorter == CandidateLists(n - 1)
       IN shorter \cup { Append(ms, m) : ms \in { l \in shorter : Len(l) = n - 1 },
                                         m \in CandidateMemories(n) }

\* consolidateMemories hands a candidate list to groupRelatedMemories
GroupInit ==
  /\ config \in { c \in Configs : c.maxWorkingMemories = MaxWorking }
  /\ store = {}
  /\ now = 0
  /\ nextId = MaxCandidates
  /\ timerActive = TRUE
  /\ timerSet = TRUE
  /\ calls = [s \in Slots |-> IdleCall]
  /\ cycles = [s \in Slots |-> IdleCycle]
  /\ settled = <<>>
  /\ reads \in { << [op |-> "groupRelatedMemories", memories |-> ms] >> :
                   ms \in CandidateLists(MaxCandidates) }

\* const groups = this.groupRelatedMemories(memories)
groupCandidates ==
  /\ reads # <<>>
  /\ reads[1].op = "groupRelatedMemories"
  /\ reads' = <<>>
  /\ settled' = << [op |-> "groupRelatedMemories",
                    memories |-> reads[1].memories,
                    groups |-> groupRelatedMemories(reads[1].memories)] >>
  /\ UNCHANGED <<config, store, now, nextId, timerActive, timerSet, calls, cycles>>

GroupSpec == GroupInit /\ [][groupCandidates]_vars

(* --------------------------- one rule of a cycle ---------------------- *)
\* the projects callers file their memories under
Projects == {"p1", "p2"}

\* the memories the id-th addMemory call may have stored before the cycle:
\* the first call with any arguments, the later ones by owner '' with the
\* default level and importance
RuleSeedMemories(id) ==
  { [AddedMemory(id, md, l, i, t) EXCEPT !.projectId = p] :
      md \in { [agentId |-> a, type |-> ty, tags |-> tg] :
                a \in { v \in Agents : id = 1 \/ v = "" },
                ty \in { v \in {"observation", "knowledge"} :
                          id = 1 \/ v = "observation" },
                tg \in IF id = 1 THEN {<<>>, <<"u", "t">>} ELSE {<<>>, <<"t">>} },
      l \in { v \in {WorkingMemory, ShortTerm} : id = 1 \/ v = WorkingMemory },
      i \in { v \in {Low, Medium} : id = 1 \/ v = Low },
      t \in 0..MaxClock,
      p \in Projects }

RECURSIVE RuleStoresAfter(_)
RuleStoresAfter(n) ==
  IF n = 0 THEN { {} }
  ELSE LET before == RuleStoresAfter(n - 1)
       IN before \cup { storeMemory(st, m) : st \in before, m \in RuleSeedMemories(n) }

\* the ConsolidationRule objects a configuration may hold
Rules ==
  { [sourceLevel |-> consolidationRules[k].sourceLevel,
     targetLevel |-> consolidationRules[k].targetLevel,
     conditions |-> [minImportance |-> i, minAccessCount |-> c, minAge |-> 1,
                     requiredTags |-> tg, requiredTypes |-> ty],
     transformations |-> consolidationRules[k].transformations] :
      k \in 1..Len(consolidationRules),
      i \in {Low, Medium}, c \in {1, 2},
      tg \in {<<>>, <<"t">>}, ty \in {<<>>, <<"knowledge">>} }

\* a cycle of a manager with one rule reaches getMemoriesForConsolidation
\* while nothing else is pending
RuleInit ==
  /\ config \in { [maxWorkingMemories |-> MaxWorking, consolidationRules |-> <<r>>] :
                    r \in Rules }
  /\ store \in RuleStoresAfter(MaxSeed)
  /\ now = MaxClock
  /\ nextId = MaxSeed
  /\ timerActive = TRUE
  /\ timerSet = TRUE
  /\ calls = [s \in Slots |-> IdleCall]
  /\ cycles = [s \in Slots |-> IdleCycle]
  /\ settled = <<>>
  /\ reads = << [op |-> "getMemoriesForConsolidation", ruleIdx |-> 1] >>

\* const memories = await this.getMemoriesForConsolidation(rule);
\* const groups = this.groupRelatedMemories(memories)
fetchMemoriesForConsolidation ==
  /\ reads # <<>>
  /\ reads[1].op = "getMemoriesForConsolidation"
  /\ \E memories \in getMemoriesForConsolidation(
                        store, config.consolidationRules[reads[1].ruleIdx], now) :
       /\ settled' = << [op |-> "getMemoriesForConsolidation",
                         ruleIdx |-> reads[1].ruleIdx, memories |-> memories] >>
       /\ reads' = IF memories = <<>> THEN <<>>
                   ELSE << [op |-> "applyConsolidationRule",
                            ruleIdx |-> reads[1].ruleIdx,
                            groups |-> groupRelatedMemories(memories)] >>
  /\ UNCHANGED <<config, store, now, nextId, timerActive, timerSet, calls, cycles>>

\* const result = await this.applyConsolidationRule(group, rule), for the
\* next group of the loop, with every request successful
applyRuleToGroup ==
  /\ reads # <<>>
  /\ reads[1].op = "applyConsolidationRule"
  /\ nextId' = nextId + 1
  /\ settled' = << [op |-> "applyConsolidationRule",
                    ruleIdx |-> reads[1].ruleIdx,
                    memories |-> Head(reads[1].groups),
                    result |-> applyConsolidationRule(
                                 Head(reads[1].groups),
                                 config.consolidationRules[reads[1].ruleIdx],
                                 nextId + 1, now)] >>
  /\ reads' = IF Tail(reads[1].groups) = <<>> THEN <<>>
              ELSE << [reads[1] EXCEPT !.groups = Tail(@)] >>
  /\ UNCHANGED <<config, store, now, timerActive, timerSet, calls, cycles>>

RuleNext == fetchMemoriesForConsolidation \/ applyRuleToGroup

RuleSpec == RuleInit /\ [][RuleNext]_vars

(* ----------------------------- properties ----------------------------- *)
Memories(st) == { JSONParse(d.content) : d \in st }

\* the memories at WorkingMemory level that belong to an owner
WorkingMemoriesOf(st, agentId) ==
  { m \in Memories(st) : m.level = WorkingMemory /\ m.agentId = agentId }

HasRuleFor(level) == FindRule(config.consolidationRules, level) # 0

ReturnedMemory ==
  IF settled # <<>> /\ settled[1].op = "addMemory" /\ settled[1].how = "resolved"
  THEN settled[1].memory ELSE <<>>

\* C1 (as claimed): capacity bound. When an addMemory call into
\* WorkingMemory returns, with a WorkingMemory rule configured and a
\* positive limit, the owner holds at most maxWorkingMemories memories at
\* WorkingMemory level. Checked for sequential calls (SeqSpec).
C1_CapacityBound ==
  \A i \in 1..Len(ReturnedMemory) :
    (/\ ReturnedMemory[i].level = WorkingMemory
     /\ HasRuleFor(WorkingMemory)
     /\ config.maxWorkingMemories >= 1)
    => Cardinality(WorkingMemoriesOf(store, ReturnedMemory[i].agentId))
         <= config.maxWorkingMemories

\* the consolidations whose storeConsolidatedMemory has run to its end
\* without a failure: every source id has been handled
CompletedResults ==
  { calls[s].result[1] : s \in { r \in Slots : calls[r].pc = "tag" /\ calls[r].toTag = <<>> } }
  \cup
  { cycles[s].result[1] : s \in { r \in Slots : cycles[r].pc = "tag" /\ cycles[r].toTag = <<>> } }

\* the consolidations still between their first write and their end
OpenResults ==
  { calls[s].result[1] : s \in { r \in Slots : calls[r].pc = "tag" } }
  \cup { cycles[s].result[1] : s \in { r \in Slots : cycles[r].pc = "tag" } }

Range(f) == { f[i] : i \in DOMAIN f }

StoredWithId(st, id) == { m \in Memories(st) : m.id = id }

IsTagged(st, id) ==
  \E m \in StoredWithId(st, id) : Includes(m.tags, "consolidated")

\* C2 (as claimed): consolidation is non-destructive. Once a group has been
\* consolidated without failure, every source is still stored, is what
\* getMemory returns for its id and carries the tag 'consolidated', and
\* exactly one memory at the target level lists exactly the group's ids.
\* Stated for the configurations with a positive capacity.
C2_NonDestructiveTagged ==
  config.maxWorkingMemories >= 1 =>
  \A r \in CompletedResults :
    /\ \A id \in Range(r.sourceMemories) :
         /\ StoredWithId(store, id) # {}
         /\ \A got \in getMemory(store, id) : got # <<>> /\ got[1].id = id
         /\ IsTagged(store, id)
    /\ Cardinality({ m \in Memories(store) :
                       /\ m.level = r.level
                       /\ m.source = "consolidation"
                       /\ Range(m.relatedMemories) = Range(r.sourceMemories) }) = 1

\* C3 (as claimed): per-group write atomicity. Outside the processing of a
\* group, a stored consolidated memory has all its sources tagged, and a
\* tagged source has its consolidated memory stored. Stated for the
\* configurations with a positive capacity.
C3_GroupWriteAtomic ==
  config.maxWorkingMemories >= 1 =>
  /\ \A m \in Memories(store) :
       (m.source = "consolidation"
        /\ m.id \notin { r.newMemory.id : r \in OpenResults })
       => \A id \in Range(m.relatedMemories) : IsTagged(store, id)
  /\ \A m \in Memories(store) :
       Includes(m.tags, "consolidated")
       => \E n \in Memories(store) :
            n.source = "consolidation" /\ m.id \in Range(n.relatedMemories)

\* timer callbacks whose consolidateMemories is in flight
CyclesInFlight == { s \in Slots : cycles[s].pc # "idle" }

\* C4 (as claimed): cycle mutual exclusion. At most one execution of
\* consolidateMemories is in flight at any time.
C4_CycleMutualExclusion == Cardinality(CyclesInFlight) <= 1

\* C5 (as claimed): per-owner atomic capacity enforcement. When the last of
\* two overlapping addMemory calls of one owner returns (the other one,
\* started later, has already stored its memory and returned), the owner is
\* not left above maxWorkingMemories.
C5_AtomicEnforcement ==
  \A i \in 1..Len(ReturnedMemory) :
    (/\ ReturnedMemory[i].level = WorkingMemory
     /\ HasRuleFor(WorkingMemory)
     /\ config.maxWorkingMemories >= 1
     /\ \A s \in Slots : calls[s].pc = "idle"
     /\ \E m \in WorkingMemoriesOf(store, ReturnedMemory[i].agentId) :
          m.source = "agent" /\ m.id > ReturnedMemory[i].id)
    => Cardinality(WorkingMemoriesOf(store, ReturnedMemory[i].agentId))
         <= config.maxWorkingMemories

\* callback s returns in this step
CallbackEnds(s) == cycles[s].pc # "idle" /\ cycles'[s].pc = "idle"

\* C6 (as claimed): failure isolation inside a cycle. Whatever fails, a
\* cycle ends only when it has gone through every group of every rule: it
\* returns from the last rule with no group left.
C6_FailureIsolation ==
  [][\A s \in Slots :
       CallbackEnds(s)
       => /\ cycles[s].ruleIdx = Len(config.consolidationRules)
          /\ cycles[s].groups = <<>>]_vars

\* the part of C6 the code keeps: a failure inside a group never ends the
\* cycle before the remaining groups and rules
C6_GroupFailureIsolated ==
  [][\A s \in Slots :
       (CallbackEnds(s) /\ cycles[s].pc # "fetch")
       => /\ cycles[s].ruleIdx = Len(config.consolidationRules)
          /\ cycles[s].groups = <<>>]_vars

\* a step of callback s
CallbackStep(s) == cycles'[s] # cycles[s]

\* C7: the scheduler survives every cycle failure. No step of a callback,
\* failing or not, stops the timer, and unless stop() is called the
\* interval starts a cycle again and again.
C7_SchedulerSurvives ==
  /\ [][\A s \in Slots : CallbackStep(s) => timerActive' = timerActive]_vars
  /\ (<>(~timerActive) \/ []<><<\E s \in Slots : Tick(s)>>_vars)

\* a cycle has just thrown into the catch of the callback and the scheduler
\* is still running
C7_Witness ==
  /\ settled # <<>>
  /\ settled[1].op = "callback"
  /\ settled[1].how = "failed"
  /\ timerActive

\* C8: scheduler state machine. The scheduler runs from construction on;
\* stop() leaves it stopped, whether it was running or not; once stopped it
\* stays stopped and no new consolidation cycle starts.
C8_StopIsFinal ==
  /\ timerActive = TRUE
  /\ [][/\ stop => ~timerActive'
        /\ ~timerActive =>
             /\ ~timerActive'
             /\ \A s \in Slots : cycles[s].pc = "idle" => cycles'[s].pc = "idle"]_vars

C8_Witness ==
  /\ ~timerActive
  /\ Pending < MaxPending
  /\ store # {}

\* C9 (as claimed): once stop() has returned, the scheduler starts
\* consolidating no further group and writes nothing more to the store.
C9_QuietAfterStop ==
  [][~timerActive =>
       \A s \in Slots :
         CallbackStep(s) => /\ store' = store
                            /\ ~(cycles[s].pc # "apply" /\ cycles'[s].pc = "apply")]_vars

Rank(level) ==
  IF level = WorkingMemory THEN 0
  ELSE IF level = ShortTerm THEN 1
  ELSE 2

\* C10: monotonic tier. No step lowers the tier rank of the level stored
\* under a memory id.
C10_MonotonicTier ==
  [][\A m \in Memories(store) : \A n \in Memories(store') :
       n.id = m.id => Rank(n.level) >= Rank(m.level)]_vars

\* a promotion has happened: a stored memory of a higher tier lists a
\* stored memory of a lower tier as its source
C10_Witness ==
  \E m \in Memories(store) : \E n \in Memories(store) :
    /\ n.source = "consolidation"
    /\ m.id \in Range(n.relatedMemories)
    /\ Rank(n.level) > Rank(m.level)


\* C11: access count invariant. Every stored memory, and so every memory
\* queryMemories returns, has accessCount >= 1, and no step lowers the
\* accessCount stored under a memory id.
C11_AccessCount ==
  /\ [](\A m \in Memories(store) : m.accessCount >= 1)
  /\ [](\A ms \in queryMemories(store, CapacityQuery) :
          \A i \in 1..Len(ms) : ms[i].accessCount >= 1)
  /\ [][\A m \in Memories(store) : \A n \in Memories(store') :
          n.id = m.id => n.accessCount >= m.accessCount]_vars

\* queryMemories has returned a memory to a cycle that went on to store the
\* consolidated memory built from it
C11_Witness ==
  \E s \in Slots :
    /\ cycles[s].pc = "tag"
    /\ \E m \in Memories(store) : \E n \in Memories(store) :
         n.source = "consolidation" /\ m.id \in Range(n.relatedMemories)

\* the queryMemories call that the last step settled, if it resolved
ResolvedQuery ==
  IF settled # <<>> /\ settled[1].op = "queryMemories" /\ settled[1].how = "resolved"
  THEN settled ELSE <<>>

\* C12 (as claimed): access counting. A queryMemories call that returns a
\* memory leaves it stored with its accessCount raised by one.
C12_AccessCounting ==
  [][\A i \in 1..Len(ResolvedQuery') :
       \A j \in 1..Len(ResolvedQuery'[i].results) :
         \A m \in StoredWithId(store, ResolvedQuery'[i].results[j].memory.id) :
           \E n \in StoredWithId(store', m.id) :
             n.accessCount = m.accessCount + 1]_vars

\* the application of groupRelatedMemories the last step made
Grouped ==
  IF settled # <<>> /\ settled[1].op = "groupRelatedMemories" THEN settled ELSE <<>>

\* the places <<g, j>> of the groups that hold the memory with this id
PlacesOf(groups, id) ==
  { p \in UNION { { <<g, j>> : j \in 1..Len(groups[g]) } : g \in 1..Len(groups) } :
      groups[p[1]][p[2]].id = id }

\* C13: grouping partitions the input. For candidates with distinct ids,
\* the groups are non-empty, every input id is in exactly one group at
\* exactly one place, and every grouped memory is one of the input.
C13_GroupingPartitions ==
  \A k \in 1..Len(Grouped) :
    LET memories == Grouped[k].memories
        groups == Grouped[k].groups
    IN /\ \A g \in 1..Len(groups) : groups[g] # <<>>
       /\ \A i \in 1..Len(memories) :
            Cardinality(PlacesOf(groups, memories[i].id)) = 1
       /\ \A g \in 1..Len(groups) : \A j \in 1..Len(groups[g]) :
            \E i \in 1..Len(memories) : memories[i] = groups[g][j]

\* three candidates were split into a group of two and a singleton
C13_Witness ==
  \E k \in 1..Len(Grouped) :
    /\ Len(Grouped[k].memories) = 3
    /\ Len(Grouped[k].groups) = 2
    /\ Len(Grouped[k].groups[1]) = 2

\* what the claim lets through: an entry of the store's search response
\* that satisfies every filter the query supplies
ClaimedMatch(entry, query) ==
  /\ (query.level # <<>> => entry.memory.level = query.level[1])
  /\ (query.type # <<>> => entry.memory.type = query.type[1])
  /\ (query.importance # <<>> => entry.memory.importance >= query.importance[1])
  /\ (query.timeRange # <<>> =>
        /\ DateOf(entry.memory.timestamp) >= query.timeRange[1].start
        /\ DateOf(entry.memory.timestamp) <= query.timeRange[1].end)
  /\ (query.tags # <<>> =>
        \A i \in 1..Len(query.tags[1]) :
          \E j \in 1..Len(entry.memory.tags) : entry.memory.tags[j] = query.tags[1][i])
  /\ (query.similarityThreshold # <<>> =>
        entry.similarity >= query.similarityThreshold[1])

MemoriesOf(entries) == [i \in 1..Len(entries) |-> entries[i].memory]

\* C14 (as claimed): filter soundness and completeness. The memories a
\* queryMemories call returns are exactly the entries of the store's search
\* response that satisfy every supplied filter, in the response's order; a
\* query for importance Medium returns no memory of importance Low.
C14_FiltersExact ==
  \A k \in 1..Len(ResolvedQuery) :
    /\ MemoriesOf(ResolvedQuery[k].results)
         = MemoriesOf(SelectSeq(ResolvedQuery[k].searched,
                                LAMBDA e : ClaimedMatch(e, ResolvedQuery[k].query)))
    /\ ResolvedQuery[k].query.importance = <<Medium>>
         => \A j \in 1..Len(ResolvedQuery[k].results) :
              ResolvedQuery[k].results[j].memory.importance # Low

\* the part of C14 the code keeps: a query that supplies no similarity
\* threshold returns exactly the entries that satisfy its other filters
C14_OtherFiltersExact ==
  \A k \in 1..Len(ResolvedQuery) :
    ResolvedQuery[k].query.similarityThreshold = <<>>
    => /\ MemoriesOf(ResolvedQuery[k].results)
            = MemoriesOf(SelectSeq(ResolvedQuery[k].searched,
                                   LAMBDA e : ClaimedMatch(e, ResolvedQuery[k].query)))
       /\ ResolvedQuery[k].query.importance = <<Medium>>
            => \A j \in 1..Len(ResolvedQuery[k].results) :
                 ResolvedQuery[k].results[j].memory.importance # Low

\* the query supplies no filter
NoFilters(query) ==
  /\ query.level = <<>> /\ query.type = <<>> /\ query.importance = <<>>
  /\ query.timeRange = <<>> /\ query.tags = <<>> /\ query.similarityThreshold = <<>>

\* C15 (as claimed): query scoping. Every memory a queryMemories call
\* returns has the project the query names and, when the query names an
\* owner, that owner; and a stored memory of project P and owner A is
\* returned to the unfiltered query scoped to P and A.
C15_QueryScoping ==
  \A k \in 1..Len(ResolvedQuery) :
    LET metadata == ResolvedQuery[k].query.metadata
        results == ResolvedQuery[k].results
    IN /\ \A j \in 1..Len(results) :
            /\ metadata.projectId # <<>>
                 => results[j].memory.projectId = metadata.projectId[1]
            /\ metadata.agentId # <<>>
                 => results[j].memory.agentId = metadata.agentId[1]
       /\ (metadata.projectId # <<>> /\ metadata.agentId # <<>>
           /\ NoFilters(ResolvedQuery[k].query))
          => \A m \in Memories(store) :
               (m.projectId = metadata.projectId[1] /\ m.agentId = metadata.agentId[1])
               => \E j \in 1..Len(results) : results[j].memory.id = m.id

\* an addMemory call starts in this step: it takes a uuid and awaits the
\* embedding request
AddMemoryStarts ==
  /\ nextId' = nextId + 1
  /\ cycles' = cycles
  /\ \A s \in Slots : calls[s].pc # "apply"

\* C16 (as claimed): an embedding failure is not fatal to addMemory.
\* Whatever the embedding request answers, the call goes on to persist the
\* memory it built; it does not reject.
C16_EmbeddingFailureNonFatal ==
  [][AddMemoryStarts
     => /\ \E s \in Slots : calls[s].pc = "idle" /\ calls'[s].pc = "store"
        /\ ~(settled' # <<>> /\ settled'[1].op = "addMemory"
             /\ settled'[1].how = "rejected")]_vars

\* C17 (as claimed): a port failure during inline capacity enforcement is
\* not fatal. The addMemory call that force-consolidates a memory never
\* ends in the step of applyConsolidationRule by rejecting: whatever the
\* summarization and embedding requests answer, the call goes on or
\* resolves with its memory.
C17_EnforcementFailureNonFatal ==
  [][\A s \in Slots :
       (calls[s].pc = "apply" /\ calls'[s].pc = "idle")
       => (settled' # <<>> /\ settled'[1].how = "resolved")]_vars

\* C18 (as claimed): graceful degradation. Whatever the requests of
\* applyConsolidationRule answer, a failed summarization among them, the
\* cycle goes on with the group: it has a new memory at the target level
\* to persist and then tags the sources. Stated for the configurations
\* with a positive capacity.
C18_GracefulDegradation ==
  [][\A s \in Slots :
       (config.maxWorkingMemories >= 1 /\ cycles[s].pc = "apply" /\ CallbackStep(s))
       => /\ cycles'[s].pc = "storeNew"
          /\ cycles'[s].group = cycles[s].group
          /\ cycles'[s].result # <<>>
          /\ cycles'[s].result[1].newMemory.level
               = config.consolidationRules[cycles[s].ruleIdx].targetLevel]_vars

\* the getMemoryStats call that the last step settled, if it resolved
ResolvedStats ==
  IF settled # <<>> /\ settled[1].op = "getMemoryStats" /\ settled[1].how = "resolved"
  THEN settled ELSE <<>>

\* the owner has no stored memory
HasNoMemories(agentId) == \A m \in Memories(store) : m.agentId # agentId

\* C19: stats on an empty store. getMemoryStats for an owner with no
\* memories returns totalMemories = 0 and a zero count for every level,
\* type and importance, on every call, and the call changes no stored
\* memory.
C19_StatsOnEmptyStore ==
  /\ [](\A k \in 1..Len(ResolvedStats) :
          HasNoMemories(ResolvedStats[k].agentId)
          => LET stats == ResolvedStats[k].stats[1]
             IN /\ stats.totalMemories = 0
                /\ \A l \in MemoryLevel : stats.byLevel[l] = 0
                /\ \A ty \in MemoryType : stats.byType[ty] = 0
                /\ \A i \in Low..Critical : stats.byImportance[i] = 0)
  /\ [][(reads # <<>> /\ reads[1].op = "getMemoryStats" /\ reads' = <<>>)
        => store' = store]_vars

\* getMemoryStats has returned for an owner without memories while the
\* store holds memories of another owner
C19_Witness ==
  \E k \in 1..Len(ResolvedStats) :
    /\ HasNoMemories(ResolvedStats[k].agentId)
    /\ store # {}

\* the value is the number 0
IsZero(v) == v.kind = "number" /\ v.num = 0

\* C20 (as claimed): zeroed rates on no data. getMemoryStats returns
\* consolidationRate = 0 when the owner has no memory created in the last
\* 24 hours, and averageAccessCount = 0 and retentionRate = 0 when the owner
\* has no memories at all.
C20_ZeroedRates ==
  \A k \in 1..Len(ResolvedStats) :
    LET stats == ResolvedStats[k].stats[1]
        agentId == ResolvedStats[k].agentId
    IN /\ (\A m \in Memories(store) :
             m.agentId = agentId => ~(now - DateOf(m.timestamp) < DayMs))
          => IsZero(stats.consolidationRate)
       /\ HasNoMemories(agentId)
          => (IsZero(stats.averageAccessCount) /\ IsZero(stats.retentionRate))

RECURSIVE Flatten(_)
Flatten(groups) ==
  IF groups = <<>> THEN <<>> ELSE Head(groups) \o Flatten(Tail(groups))

\* the memories a cycle holds as consolidation sources: the group it is
\* working on and the groups still to come
SourcesOf(cycle) == Range(cycle.group) \cup Range(Flatten(cycle.groups))

\* callback s receives the memories of its rule in this step
FetchReturns(s) == cycles[s].pc = "fetch" /\ CallbackStep(s)

\* C21 (as claimed): minimum-age eligibility. Every memory a cycle selects
\* as a consolidation source for a rule has age now - createdAt of at least
\* the rule's minAge when it is selected.
C21_MinimumAge ==
  [][\A s \in Slots :
       FetchReturns(s)
       => \A m \in SourcesOf(cycles'[s]) :
            now - DateOf(m.timestamp)
              >= config.consolidationRules[cycles[s].ruleIdx].conditions.minAge]_vars

\* C22 (as claimed): a consolidation target is never itself marked as a
\* source. Once a group has been consolidated without failure, the new
\* memory was created without the tag 'consolidated' and each of its
\* sources carries the tag. Stated for the configurations with a positive
\* capacity.
C22_TargetNotSource ==
  config.maxWorkingMemories >= 1 =>
  \A r \in CompletedResults :
    /\ ~Includes(r.newMemory.tags, "consolidated")
    /\ \A id \in Range(r.sourceMemories) :
         \E m \in StoredWithId(store, id) : Includes(m.tags, "consolidated")

\* the enforceCapacityLimits of call s gets the answer of its query in this
\* step and does not throw
EnforceReturns(s) ==
  /\ calls[s].pc = "enforce"
  /\ calls'[s] # calls[s]
  /\ ~(settled' # <<>> /\ settled'[1].how = "rejected")

\* the memories the call is about to force through consolidateMemory
Forced(call) == IF call.pc = "apply" THEN call.group \o call.oldest ELSE <<>>

\* C23 (as claimed): capacity enforcement selection. When the enforcement
\* of an addMemory call into WorkingMemory finds the owner with more than
\* maxWorkingMemories memories at WorkingMemory level, it forces exactly
\* the excess, the owner's memories with the smallest createdAt, one by
\* one as singleton groups; otherwise it forces none. Stated for the
\* configurations with a positive capacity.
C23_EnforcementSelection ==
  [][\A s \in Slots :
       (EnforceReturns(s) /\ HasRuleFor(WorkingMemory)
        /\ config.maxWorkingMemories >= 1)
       => LET mine == WorkingMemoriesOf(store, calls[s].memory[1].agentId)
              excess == Cardinality(mine) - config.maxWorkingMemories
              forced == Forced(calls'[s])
          IN IF calls[s].memory[1].level = WorkingMemory /\ excess > 0
             THEN /\ Len(forced) = excess
                  /\ Range(forced) \subseteq mine
                  /\ \A f \in Range(forced) : \A m \in mine \ Range(forced) :
                       DateOf(f.timestamp) <= DateOf(m.timestamp)
                  /\ Len(calls'[s].group) = 1
             ELSE forced = <<>>]_vars

\* the application of applyConsolidationRule the last step made
Applied ==
  IF settled # <<>> /\ settled[1].op = "applyConsolidationRule" THEN settled ELSE <<>>

\* C24: derived fields of a consolidated memory. For every non-empty group
\* and rule the new memory has the rule's target level, the maximum
\* importance of the group, the union of the members' tags without
\* duplicates, the ids of all members as relatedMemories, accessCount 1 and
\* an id different from every source id.
C24_DerivedFields ==
  \A k \in 1..Len(Applied) :
    LET group == Applied[k].memories
        rule == config.consolidationRules[Applied[k].ruleIdx]
        new == Applied[k].result.newMemory
    IN group # <<>> =>
       /\ new.level = rule.targetLevel
       /\ \E i \in 1..Len(group) : group[i].importance = new.importance
       /\ \A i \in 1..Len(group) : group[i].importance <= new.importance
       /\ Range(new.tags) = UNION { Range(group[i].tags) : i \in 1..Len(group) }
       /\ Cardinality(Range(new.tags)) = Len(new.tags)
       /\ Len(new.relatedMemories) = Len(group)
       /\ \A i \in 1..Len(group) : new.relatedMemories[i] = group[i].id
       /\ new.accessCount = 1
       /\ \A i \in 1..Len(group) : new.id # group[i].id

\* a group of two was consolidated whose second member is the more
\* important one and shares a tag with the first
C24_Witness ==
  \E k \in 1..Len(Applied) :
    LET group == Applied[k].memories
    IN /\ Len(group) = 2
       /\ group[1].importance < group[2].importance
       /\ Range(group[1].tags) \cap Range(group[2].tags) # {}
       /\ Range(group[2].tags) \ Range(group[1].tags) # {}

\* the consolidation result whose storeConsolidatedMemory makes a step in
\* this transition, if any
WritingResults ==
  { calls[s].result[1] :
      s \in { r \in Slots : calls[r].pc \in {"storeNew", "tag"} /\ calls'[r] # calls[r] } }
  \cup
  { cycles[s].result[1] :
      s \in { r \in Slots : cycles[r].pc \in {"storeNew", "tag"} /\ CallbackStep(r) } }

\* the memory as it is read back from the store
AsStored(memory) == JSONParse(JSONStringify(memory))

\* C25: frame of consolidation. A step of storeConsolidatedMemory changes
\* the store at most by adding the new memory of its group and by adding
\* the tag 'consolidated' to sources of the group: every other field of a
\* source and every memory that is not a source stay as they are.
C25_ConsolidationFrame ==
  [][\A r \in WritingResults :
       /\ \A m \in Memories(store) :
            \/ m \in Memories(store')
            \/ (m.id \in Range(r.sourceMemories) /\ Tagged(m) \in Memories(store'))
       /\ \A n \in Memories(store') \ Memories(store) :
            \/ n = AsStored(r.newMemory)
            \/ \E m \in Memories(store) :
                 m.id \in Range(r.sourceMemories) /\ n = Tagged(m)]_vars

\* a consolidation has run to its end: its new memory is stored next to
\* its sources
C25_Witness ==
  \E r \in CompletedResults :
    /\ AsStored(r.newMemory) \in Memories(store)
    /\ \A id \in Range(r.sourceMemories) : StoredWithId(store, id) # {}
    /\ Cardinality(store) >= 2

\* the relation of the claim between a founder and another candidate
RelatedToFounder(founder, other) ==
  \/ (founder.taskId # <<>> /\ founder.taskId = other.taskId)
  \/ other.id \in Range(founder.relatedMemories)
  \/ Cardinality(Range(founder.tags) \cap Range(other.tags)) >= 2
  \/ (founder.embeddings # <<>> /\ other.embeddings # <<>>
      /\ calculateCosineSimilarityAtLeast(founder.embeddings, other.embeddings,
                                          SimilarityThresholdPct))

\* the candidates not placed in one of the first n groups, in input order
Unassigned(memories, groups, n) ==
  SelectSeq(memories, LAMBDA m : \A g \in 1..n : m \notin Range(groups[g]))

\* C26: founder-based greedy grouping. The founder of each group is the
\* earliest candidate not assigned to an earlier group, every other member
\* is related to the founder, and no candidate that was unassigned when the
\* group was opened and is related to the founder is left out of it; two
\* candidates with the same taskId, no common tag and no embeddings, given
\* alone, form one group.
C26_FounderGrouping ==
  \A k \in 1..Len(Grouped) :
    LET memories == Grouped[k].memories
        groups == Grouped[k].groups
    IN /\ \A g \in 1..Len(groups) :
            LET open == Unassigned(memories, groups, g - 1)
                founder == groups[g][1]
            IN /\ open # <<>>
               /\ founder = open[1]
               /\ \A j \in 2..Len(groups[g]) : RelatedToFounder(founder, groups[g][j])
               /\ \A i \in 2..Len(open) :
                    RelatedToFounder(founder, open[i]) => open[i] \in Range(groups[g])
       /\ (/\ Len(memories) = 2
           /\ memories[1].taskId = <<"T1">> /\ memories[2].taskId = <<"T1">>
           /\ Range(memories[1].tags) \cap Range(memories[2].tags) = {}
           /\ memories[1].embeddings = <<>> /\ memories[2].embeddings = <<>>)
          => groups = <<memories>>

\* two candidates that share only their task were given alone and placed
\* in one group
C26_Witness ==
  \E k \in 1..Len(Grouped) :
    LET memories == Grouped[k].memories
        groups == Grouped[k].groups
    IN /\ Len(memories) = 2
       /\ memories[1].taskId = <<"T1">> /\ memories[2].taskId = <<"T1">>
       /\ memories[1].tags = <<>> /\ memories[1].relatedMemories = <<>>
       /\ memories[1].embeddings = <<>> /\ memories[2].embeddings = <<>>
       /\ groups = <<memories>>

\* the memories the last step fetched for a rule and passed to grouping
Fetched ==
  IF settled # <<>> /\ settled[1].op = "getMemoriesForConsolidation"
  THEN settled ELSE <<>>

\* C27 (as claimed): rule conditions are conjunctive. Every memory a cycle
\* passes to grouping for a rule has the rule's source level, importance
\* >= minImportance, accessCount >= minAccessCount, every tag of
\* requiredTags when given and a type listed in requiredTypes when given.
C27_ConditionsConjunctive ==
  \A k \in 1..Len(Fetched) :
    LET rule == config.consolidationRules[Fetched[k].ruleIdx]
    IN \A m \in Range(Fetched[k].memories) :
         /\ m.level = rule.sourceLevel
         /\ m.importance >= rule.conditions.minImportance
         /\ m.accessCount >= rule.conditions.minAccessCount
         /\ Range(rule.conditions.requiredTags) \subseteq Range(m.tags)
         /\ (rule.conditions.requiredTypes # <<>>
             => m.type \in Range(rule.conditions.requiredTypes))

\* the part of C27 the code keeps: level, importance, access count and
\* required tags hold for every memory passed to grouping
C27_OtherConditions ==
  \A k \in 1..Len(Fetched) :
    LET rule == config.consolidationRules[Fetched[k].ruleIdx]
    IN \A m \in Range(Fetched[k].memories) :
         /\ m.level = rule.sourceLevel
         /\ m.importance >= rule.conditions.minImportance
         /\ m.accessCount >= rule.conditions.minAccessCount
         /\ Range(rule.conditions.requiredTags) \subseteq Range(m.tags)

\* the memory satisfies the conditions of the rule at time t
Eligible(m, rule, t) ==
  /\ m.level = rule.sourceLevel
  /\ m.importance >= rule.conditions.minImportance
  /\ m.accessCount >= rule.conditions.minAccessCount
  /\ t - DateOf(m.timestamp) >= rule.conditions.minAge
  /\ Range(rule.conditions.requiredTags) \subseteq Range(m.tags)

\* the sources of the groups a cycle holds, one entry per membership
SourceList(cycle) == cycle.group \o Flatten(cycle.groups)

\* C28 (as claimed): a cycle covers all eligible memories. When a cycle
\* fetches the memories of a rule without a failure, every stored memory
\* that satisfies the rule's conditions at that time is among the fetched
\* ones and is a member of exactly one of the groups to consolidate.
C28_CycleCoversEligible ==
  [][\A s \in Slots :
       (FetchReturns(s) /\ ~(settled' # <<>> /\ settled'[1].how = "failed"))
       => \A m \in Memories(store) :
            Eligible(m, config.consolidationRules[cycles[s].ruleIdx], cycles[s].queryAt)
            => Cardinality({ i \in 1..Len(SourceList(cycles'[s])) :
                               SourceList(cycles'[s])[i].id = m.id }) = 1]_vars

\* the memories consolidation has created so far: the stored ones and the
\* ones whose storeConsolidatedMemory is under way
CreatedByConsolidation ==
  { m \in Memories(store) : m.source = "consolidation" }
  \cup { AsStored(calls[s].result[1].newMemory) :
           s \in { r \in Slots : calls[r].pc \in {"storeNew", "tag"} } }
  \cup { AsStored(cycles[s].result[1].newMemory) :
           s \in { r \in Slots : cycles[r].pc \in {"storeNew", "tag"} } }

\* C29 (as claimed): each memory is consolidated at most once. No memory id
\* is listed in the relatedMemories of two different memories created by
\* consolidation, and no stored memory carries the tag 'consolidated' more
\* than once. Stated for the configurations with a positive capacity.
C29_ConsolidatedOnce ==
  config.maxWorkingMemories >= 1 =>
  /\ \A a \in CreatedByConsolidation : \A b \in CreatedByConsolidation :
       a.id # b.id => Range(a.relatedMemories) \cap Range(b.relatedMemories) = {}
  /\ \A m \in Memories(store) :
       Cardinality({ i \in 1..Len(m.tags) : m.tags[i] = "consolidated" }) <= 1

\* C30 (as claimed): owner preservation. A memory created by consolidation
\* has the agentId and the projectId of every one of its sources, so no
\* group mixes owners or projects.
C30_OwnerPreserved ==
  \A k \in 1..Len(Applied) :
    \A i \in 1..Len(Applied[k].memories) :
      /\ Applied[k].result.newMemory.agentId = Applied[k].memories[i].agentId
      /\ Applied[k].result.newMemory.projectId = Applied[k].memories[i].projectId

====
